---- MODULE Spec2Model ----
(***************************************************************************)
(* Morse receiver of lab5_3/main/main.c: the sampling loop of app_main as  *)
(* a state machine (one Tick per loop iteration), the lookup morse_to_char *)
(* as an operator, and the two fixed-size character arrays as memory.      *)
(*                                                                         *)
(* Characters are bytes (their ASCII codes).  A buffer is held as its live *)
(* cells, the cells at indices below its index variable.  locals holds the *)
(* locals threshold, hysteresis, dot and do_calib, which the loop only     *)
(* reads.                                                                  *)
(***************************************************************************)
EXTENDS Integers, Sequences, FiniteSets, TLC

VARIABLES locals, layout, volt, state, duration,
          letter_buf, lidx, word_buf, widx, out, ev, script, sent, hist

vars == <<locals, layout, volt, state, duration,
          letter_buf, lidx, word_buf, widx, out, ev, script, sent, hist>>

prog == <<locals, layout, volt, state, duration,
          letter_buf, lidx, word_buf, widx>>

----------------------------------------------------------------------------
(* Program constants                                                       *)

SAMPLE_MS == 10
threshold == 40
hysteresis == 5
dot == 50
LETTER_CAP == 16
WORD_CAP == 64
INT_MAX == 2147483647
MaxRaw == 4095

INT_MIN == -INT_MAX - 1

OFF == "OFF"
ON == "ON"

----------------------------------------------------------------------------
(* Characters                                                              *)

Letters == <<"A", "B", "C", "D", "E", "F", "G", "H", "I", "J", "K", "L", "M",
             "N", "O", "P", "Q", "R", "S", "T", "U", "V", "W", "X", "Y", "Z">>
Digits == <<"0", "1", "2", "3", "4", "5", "6", "7", "8", "9">>

Ascii(c) ==
    CASE c = "." -> 46
      [] c = "-" -> 45
      [] c = "?" -> 63
      [] \E i \in 1..Len(Letters) : Letters[i] = c ->
            64 + (CHOOSE i \in 1..Len(Letters) : Letters[i] = c)
      [] \E i \in 1..Len(Digits) : Digits[i] = c ->
            47 + (CHOOSE i \in 1..Len(Digits) : Digits[i] = c)

Str(s) == [i \in 1..Len(s) |-> Ascii(s[i])]

DotChar == Ascii(".")
DashChar == Ascii("-")
Unknown == Ascii("?")

----------------------------------------------------------------------------
(* Symbol table and lookup                                                 *)

M(code, letter) == [morse |-> Str(code), letter |-> Ascii(letter)]

morse_table == <<
    M(<<".", "-">>, "A"), M(<<"-", ".", ".", ".">>, "B"),
    M(<<"-", ".", "-", ".">>, "C"), M(<<"-", ".", ".">>, "D"),
    M(<<".">>, "E"),
    M(<<".", ".", "-", ".">>, "F"), M(<<"-", "-", ".">>, "G"),
    M(<<".", ".", ".", ".">>, "H"), M(<<".", ".">>, "I"),
    M(<<".", "-", "-", "-">>, "J"),
    M(<<"-", ".", "-">>, "K"), M(<<".", "-", ".", ".">>, "L"),
    M(<<"-", "-">>, "M"), M(<<"-", ".">>, "N"), M(<<"-", "-", "-">>, "O"),
    M(<<".", "-", "-", ".">>, "P"), M(<<"-", "-", ".", "-">>, "Q"),
    M(<<".", "-", ".">>, "R"), M(<<".", ".", ".">>, "S"), M(<<"-">>, "T"),
    M(<<".", ".", "-">>, "U"), M(<<".", ".", ".", "-">>, "V"),
    M(<<".", "-", "-">>, "W"), M(<<"-", ".", ".", "-">>, "X"),
    M(<<"-", ".", "-", "-">>, "Y"),
    M(<<"-", "-", ".", ".">>, "Z"), M(<<"-", "-", "-", "-", "-">>, "0"),
    M(<<".", "-", "-", "-", "-">>, "1"), M(<<".", ".", "-", "-", "-">>, "2"),
    M(<<".", ".", ".", "-", "-">>, "3"),
    M(<<".", ".", ".", ".", "-">>, "4"), M(<<".", ".", ".", ".", ".">>, "5"),
    M(<<"-", ".", ".", ".", ".">>, "6"), M(<<"-", "-", ".", ".", ".">>, "7"),
    M(<<"-", "-", "-", ".", ".">>, "8"),
    M(<<"-", "-", "-", "-", ".">>, "9") >>

\* strcmp(a, b) == 0 for two NUL-terminated strings given without the NUL.
strcmp_eq(a, b) == a = b

\* The for loop of morse_to_char from entry i on: the first matching row wins.
RECURSIVE lookup_from(_, _)
lookup_from(i, code) ==
    IF i > Len(morse_table) THEN Unknown
    ELSE IF strcmp_eq(morse_table[i].morse, code) THEN morse_table[i].letter
    ELSE lookup_from(i + 1, code)

\* Variant: the loop starts one entry late.
morse_to_char_skip_first(code) == lookup_from(2, code)

morse_to_char(code) == lookup_from(1, code)

----------------------------------------------------------------------------
(* Decision expressions of the loop body                                   *)

\* line 73: the calibration handle exists.
do_calib == locals.do_calib # 0

\* a + b on C ints: past INT_MAX or INT_MIN the sum is undefined; the add
\* instruction of the target wraps in two's complement (a build that traps
\* instead takes no further step).
int_add(a, b) ==
    IF b >= 0
    THEN IF a > INT_MAX - b THEN INT_MIN + (a - (INT_MAX - b) - 1) ELSE a + b
    ELSE IF a < INT_MIN - b THEN INT_MAX - ((INT_MIN - b - 1) - a) ELSE a + b

\* 2*dot
two_dot == int_add(locals.dot, locals.dot)

\* 5*dot
five_dot == int_add(int_add(two_dot, two_dot), locals.dot)

led_on(st, v) ==
    IF st = OFF THEN v > int_add(locals.threshold, locals.hysteresis)
    ELSE v > int_add(locals.threshold, -locals.hysteresis)

word_gap(d) == d >= five_dot

letter_gap(d) == d >= two_dot

\* Variant: the dot/dash boundary at one dot length.
symbol_one_dot(d) == IF d < locals.dot THEN DotChar ELSE DashChar

symbol(d) == IF d < two_dot THEN DotChar ELSE DashChar

----------------------------------------------------------------------------
(* Memory                                                                  *)
(* A store at an index at or past the capacity of letter_buf or word_buf   *)
(* is undefined behaviour.  What it does depends on where the build placed *)
(* the locals of app_main.  The placements modelled are those of gcc 12    *)
(* (chosen once, layout); an address is a byte offset from the lower of    *)
(* the two arrays:                                                         *)
(*   "O0"    x86-64 -O0: word_buf 0, letter_buf 64, volt 88, adc_raw 92,   *)
(*           the two copies of c 141 and 142, led_on 143, the err_rc_ of   *)
(*           line 93 at 144 and of line 92 at 148, dot 152, hysteresis     *)
(*           156, threshold 160, do_calib 167, duration 176, state 180,    *)
(*           widx 184, lidx 188;                                           *)
(*   "O0m32" i386 -O0: word_buf 0, letter_buf 64, volt 80, adc_raw 84,     *)
(*           the two copies of c 117 and 118, led_on 119, the err_rc_ of   *)
(*           line 93 at 120 and of line 92 at 124, dot 128, hysteresis     *)
(*           132, threshold 136, do_calib 143, duration 152, state 156,    *)
(*           widx 160, lidx 164;                                           *)
(*   "O1"    x86-64 -O1: word_buf 0, letter_buf 64, volt 92, adc_raw 96;   *)
(*   "Og"    x86-64 -Og: word_buf 0, letter_buf 64, volt 80, adc_raw 84;   *)
(*   "O2"    x86-64 -O2 (also -Os and -O3): letter_buf 0, word_buf 16;     *)
(*           volt and adc_raw lie below letter_buf, at -36 and -40.        *)
(* err_rc_ is the local that ESP_ERROR_CHECK declares for the result of    *)
(* the call it checks: line 92 assigns it in every iteration, line 93 in   *)
(* every iteration that converts the reading, and the iteration goes on    *)
(* only if the result is ESP_OK (0).  At -O1 and above err_rc_ and the     *)
(* other scalars are held in registers or below the arrays, and threshold, *)
(* hysteresis and dot are constants of the code.                           *)
(* Every other byte (padding, the configuration structures, the two driver *)
(* handles, saved registers, the return address, the frames of the         *)
(* callers) is plain memory to app_main: it holds what was last stored     *)
(* there.  The driver calls of lines 92 and 93 are taken to deliver their  *)
(* readings whatever bytes the handles hold; a build in which a store or a *)
(* driver call traps takes no further step, which the stuttering of the    *)
(* specification allows.                                                   *)

Layouts == {"O0", "O0m32", "O1", "Og", "O2"}

Frames ==
    [lay \in Layouts |->
       CASE lay = "O0" ->
              [word_buf |-> 0, letter_buf |-> 64,
               at |-> [volt |-> 88, adc_raw |-> 92, dot |-> 152,
                       hysteresis |-> 156, threshold |-> 160,
                       do_calib |-> 167, duration |-> 176, state |-> 180,
                       widx |-> 184, lidx |-> 188],
               tmp |-> [c_word |-> 141, c_letter |-> 142, led_on |-> 143],
               err_rc_ |-> [read |-> 148, to_voltage |-> 144]]
         [] lay = "O0m32" ->
              [word_buf |-> 0, letter_buf |-> 64,
               at |-> [volt |-> 80, adc_raw |-> 84, dot |-> 128,
                       hysteresis |-> 132, threshold |-> 136,
                       do_calib |-> 143, duration |-> 152, state |-> 156,
                       widx |-> 160, lidx |-> 164],
               tmp |-> [c_word |-> 117, c_letter |-> 118, led_on |-> 119],
               err_rc_ |-> [read |-> 124, to_voltage |-> 120]]
         [] lay = "O1" ->
              [word_buf |-> 0, letter_buf |-> 64,
               at |-> [volt |-> 92, adc_raw |-> 96], tmp |-> [t \in {} |-> 0],
               err_rc_ |-> [t \in {} |-> 0]]
         [] lay = "Og" ->
              [word_buf |-> 0, letter_buf |-> 64,
               at |-> [volt |-> 80, adc_raw |-> 84], tmp |-> [t \in {} |-> 0],
               err_rc_ |-> [t \in {} |-> 0]]
         [] lay = "O2" ->
              [word_buf |-> 16, letter_buf |-> 0,
               at |-> [volt |-> -36, adc_raw |-> -40],
               tmp |-> [t \in {} |-> 0], err_rc_ |-> [t \in {} |-> 0]]]

\* The placement of the build lay.
Frame(lay) == Frames[lay]

\* The number of bytes of a scalar: bool do_calib is one byte, the others
\* are ints.
SizeOf(o) == IF o = "do_calib" THEN 1 ELSE 4

\* The four bytes of the int x, least significant first (two's complement).
IntBytes(x) ==
    LET y == IF x >= 0 THEN x ELSE -(x + 1)
    IN [k \in 1..4 |-> IF x >= 0 THEN (y \div (256^(k - 1))) % 256
                       ELSE 255 - ((y \div (256^(k - 1))) % 256)]

\* The int whose four bytes are bs.
BytesInt(bs) ==
    IF bs[4] < 128
    THEN bs[1] + 256 * bs[2] + 65536 * bs[3] + 16777216 * bs[4]
    ELSE -((255 - bs[1]) + 256 * (255 - bs[2]) + 65536 * (255 - bs[3])
           + 16777216 * (255 - bs[4])) - 1

\* The int x with its byte k (0 the least significant) replaced by b.
SetByte(x, k, b) == BytesInt([IntBytes(x) EXCEPT ![k + 1] = b])

\* A byte that the receiver has not stored since its array was last reset:
\* it holds whatever the frame held.
Stale == -1

\* The scalars that have a byte at address a.
ScalarsAt(lay, a) ==
    {o \in DOMAIN Frame(lay).at :
        Frame(lay).at[o] <= a /\ a < Frame(lay).at[o] + SizeOf(o)}

\* For each build, the scalar that owns each address that a scalar of the
\* frame occupies.
Owners ==
    [lay \in Layouts |->
       [a \in UNION {Frame(lay).at[o]..(Frame(lay).at[o] + SizeOf(o) - 1) :
                        o \in DOMAIN Frame(lay).at} |->
          CHOOSE o \in ScalarsAt(lay, a) : TRUE]]

\* The byte at address a of the memory m: a byte of one of its scalars
\* m.val, or one of its plain bytes m.mem (a function from the addresses
\* stored to), or a stale byte.
Load(lay, m, a) ==
    IF a \in DOMAIN Owners[lay]
    THEN LET o == Owners[lay][a]
         IN IntBytes(m.val[o])[a - Frame(lay).at[o] + 1]
    ELSE IF a \in DOMAIN m.mem THEN m.mem[a]
    ELSE Stale

\* The plain bytes mem with the byte b at address a.
Put(mem, a, b) ==
    [x \in DOMAIN mem \cup {a} |-> IF x = a THEN b ELSE mem[x]]

\* The memory after the byte b was stored at address a.
Store(lay, m, a, b) ==
    IF a \in DOMAIN Owners[lay]
    THEN LET o == Owners[lay][a]
         IN [m EXCEPT !.val[o] = SetByte(@, a - Frame(lay).at[o], b)]
    ELSE [m EXCEPT !.mem = Put(@, a, b)]

\* The memory after the byte b was stored in the temporary t, in a build
\* that keeps t in the frame.
StoreTmp(lay, m, t, b) ==
    IF t \in DOMAIN Frame(lay).tmp THEN Store(lay, m, Frame(lay).tmp[t], b)
    ELSE m

\* The plain bytes mem with the four bytes of the int x at address a.
PutInt(mem, a, x) ==
    [y \in DOMAIN mem \cup (a..(a + 3)) |->
        IF a <= y /\ y <= a + 3 THEN IntBytes(x)[y - a + 1] ELSE mem[y]]

\* The memory after ESP_ERROR_CHECK stored the result ESP_OK of the call
\* t in its err_rc_, in a build that keeps err_rc_ in the frame (no scalar
\* of the frame shares a byte with an err_rc_).
StoreErr(lay, m, t) ==
    IF t \in DOMAIN Frame(lay).err_rc_
    THEN [m EXCEPT !.mem = PutInt(@, Frame(lay).err_rc_[t], 0)]
    ELSE m

\* The n bytes from address a on.
Bytes(lay, m, a, n) == [i \in 1..n |-> Load(lay, m, a + i - 1)]

\* The bytes in front of the first NUL; a stale byte may be the NUL, it is
\* kept as the last byte of the result.
UntilZero(bytes) ==
    LET ends == {i \in DOMAIN bytes : bytes[i] \in {0, Stale}}
        k == CHOOSE i \in ends : \A j \in ends : i <= j
    IN IF ends = {} THEN bytes
       ELSE IF bytes[k] = 0 THEN SubSeq(bytes, 1, k - 1)
       ELSE SubSeq(bytes, 1, k)

\* The NUL-terminated string that starts at address a, read right after the
\* terminator was stored at a + n: the first NUL lies there or in front.
StringAt(lay, m, a, n) == UntilZero(Bytes(lay, m, a, n + 1))

----------------------------------------------------------------------------
(* Loop body                                                               *)

\* lines 103-106 (115-118): close the pending letter into word_buf; t is
\* the temporary that holds c.
CloseLetter(m, t) ==
    LET F == Frame(layout)
        n == m.val.lidx
        m1 == Store(layout, m, F.letter_buf + n, 0)
        code == StringAt(layout, m1, F.letter_buf, n)
        c == morse_to_char(code)
        m2 == StoreTmp(layout, m1, t, c)
        w == m2.val.widx
        m3 == Store(layout, [m2 EXCEPT !.val.widx = w + 1], F.word_buf + w, c)
    IN [m3 EXCEPT !.val.lidx = 0,
                  !.closed = TRUE, !.code = code, !.char = c,
                  !.oob_letter = n >= LETTER_CAP,
                  !.oob_word = w >= WORD_CAP]

\* lines 109-111: log the word and clear word_buf.
EmitWord(m) ==
    LET F == Frame(layout)
        w == m.val.widx
        m1 == Store(layout, m, F.word_buf + w, 0)
    IN [m1 EXCEPT !.val.widx = 0,
                  !.out = Append(m.out, StringAt(layout, m1, F.word_buf, w)),
                  !.oob_word = m.oob_word \/ w >= WORD_CAP]

\* The plain bytes of the frame as the live cells give them: letter_buf
\* holds the cells letter_buf[0..lidx-1], word_buf the cells
\* word_buf[0..widx-1]; a cell of neither is stale.
Image ==
    LET F == Frame(layout)
        W == (F.word_buf)..(F.word_buf + widx - 1)
        L == (F.letter_buf)..(F.letter_buf + lidx - 1)
    IN [a \in W \cup L |->
          IF a \in W THEN word_buf[a - F.word_buf + 1]
          ELSE letter_buf[a - F.letter_buf + 1]]

\* The objects as line 96 finds them: adc_raw holds r and the call returned
\* ESP_OK (line 92); volt holds v1 and, if the handle exists, the conversion
\* returned ESP_OK (line 93).
Mem0(r, v1) ==
    LET m == [mem |-> Image,
              val |-> [volt |-> v1, adc_raw |-> r, dot |-> locals.dot,
                       hysteresis |-> locals.hysteresis,
                       threshold |-> locals.threshold,
                       do_calib |-> locals.do_calib, duration |-> duration,
                       state |-> IF state = ON THEN 1 ELSE 0,
                       widx |-> widx, lidx |-> lidx],
              out |-> <<>>, closed |-> FALSE, code |-> <<>>, char |-> 0,
              oob_letter |-> FALSE, oob_word |-> FALSE]
        m92 == StoreErr(layout, m, "read")
    IN IF do_calib THEN StoreErr(layout, m92, "to_voltage") ELSE m92

\* Variant: the gap handling without the lidx > 0 and widx > 0 tests.
RisingEdge_unguarded(d, m0) ==
    IF word_gap(d) THEN EmitWord(CloseLetter(m0, "c_word"))
    ELSE IF letter_gap(d) THEN CloseLetter(m0, "c_letter")
    ELSE m0

\* lines 101-120: the gap handling of an OFF -> ON transition.
RisingEdge(d, m0) ==
    IF word_gap(d)
    THEN LET m1 == IF m0.val.lidx > 0 THEN CloseLetter(m0, "c_word") ELSE m0
         IN IF m1.val.widx > 0 THEN EmitWord(m1) ELSE m1
    ELSE IF letter_gap(d)
    THEN IF m0.val.lidx > 0 THEN CloseLetter(m0, "c_letter") ELSE m0
    ELSE m0

\* line 128: record a dot or a dash.
FallingEdge(d, m0) ==
    LET n == m0.val.lidx
    IN [Store(layout, [m0 EXCEPT !.val.lidx = n + 1],
              Frame(layout).letter_buf + n, symbol(d))
           EXCEPT !.oob_letter = n >= LETTER_CAP]

\* duration += SAMPLE_MS
add_sample(d) == int_add(d, SAMPLE_MS)

\* Variant: the reading is converted whether or not the handle exists.
Reading_uncond(v) == v

\* line 93: volt is written only when the calibration handle exists.
Reading(v) == IF do_calib THEN v ELSE volt

EdgeKind(on) ==
    IF on THEN (IF state = OFF THEN "rise" ELSE "hold")
    ELSE (IF state = ON THEN "fall" ELSE "hold")

----------------
(* Scenario A of the symbol-timing tests, followed as the ticks arrive:    *)
(* On x5, Off x5, On x5, Off x(25 or more), and then one closing On tick.  *)
(* pos counts the ticks fed so far while they follow the scenario (-1 once *)
(* they do not); fin is set by the closing On tick; words are the words    *)
(* logged while the scenario was followed.                                 *)

ScenarioA_Off == (5 * dot) \div SAMPLE_MS

ScriptLevel(n) == IF n <= 5 THEN ON ELSE IF n <= 10 THEN OFF
                  ELSE IF n <= 15 THEN ON ELSE OFF

OffScript == [pos |-> -1, fin |-> FALSE, words |-> <<>>]

ScriptStep(sc, v, words) ==
    LET lvl == IF v > threshold + hysteresis THEN ON
               ELSE IF v <= threshold - hysteresis THEN OFF ELSE "band"
        n == sc.pos + 1
    IN IF sc.pos < 0 \/ sc.fin \/ lvl = "band" THEN OffScript
       ELSE IF lvl = ScriptLevel(n)
       THEN [pos |-> n, fin |-> FALSE, words |-> sc.words \o words]
       ELSE IF lvl = ON /\ sc.pos >= 15 + ScenarioA_Off
       THEN [pos |-> n, fin |-> TRUE, words |-> sc.words \o words]
       ELSE OffScript

----------------------------------------------------------------------------
(* What the signal has spelled, kept beside the buffers: syms are the      *)
(* symbols recorded since the last letter was closed, chars the lookups of *)
(* the letters closed since the last word was logged, word the text due    *)
(* from the tick that logs a word; over is set once a letter of more than  *)
(* LETTER_CAP symbols or a word of more than WORD_CAP letters was spelled; *)
(* fell is set by the first ON -> OFF transition; ticks counts the         *)
(* iterations up to 2; held counts the iterations since the last edge.     *)

\* The character of the first table row that holds the code, '?' if none.
FirstMatch(code) ==
    LET rows == {i \in DOMAIN morse_table : morse_table[i].morse = code}
    IN IF rows = {} THEN Unknown
       ELSE morse_table[CHOOSE i \in rows : \A j \in rows : i <= j].letter

Hist0 == [syms |-> <<>>, chars |-> <<>>, word |-> <<>>, over |-> FALSE,
          fell |-> FALSE, ticks |-> 0, held |-> 0]

History(h, kind, m, d) ==
    LET syms1 == IF kind = "fall" THEN Append(h.syms, symbol(d))
                 ELSE IF m.closed THEN <<>> ELSE h.syms
        chars1 == IF m.closed THEN Append(h.chars, FirstMatch(h.syms))
                  ELSE h.chars
        logged == m.out # <<>>
    IN [syms |-> syms1,
        chars |-> IF logged THEN <<>> ELSE chars1,
        word |-> IF logged THEN chars1 ELSE <<>>,
        over |-> h.over \/ Len(syms1) > LETTER_CAP \/ Len(chars1) > WORD_CAP,
        fell |-> h.fell \/ kind = "fall",
        ticks |-> IF h.ticks < 2 THEN h.ticks + 1 ELSE 2,
        held |-> IF kind = "hold" THEN h.held + 1 ELSE 1]

----------------------------------------------------------------------------
(* The state machine                                                       *)

\* lines 73 and 78-80: the locals as initialised; adc_calib_init returns
\* whether the calibration scheme was created.
Locals0(calib) ==
    [threshold |-> threshold, hysteresis |-> hysteresis, dot |-> dot,
     do_calib |-> IF calib THEN 1 ELSE 0]

Init ==
    /\ locals \in {Locals0(calib) : calib \in BOOLEAN}
    /\ layout \in Layouts
    /\ volt = 0
    /\ state = OFF
    /\ duration = 0
    /\ letter_buf = <<>>
    /\ lidx = 0
    /\ word_buf = <<>>
    /\ widx = 0
    /\ out = <<>>
    /\ ev = [kind |-> "init", raw |-> 0, volt |-> 0, d |-> 0,
             closed |-> FALSE,
             code |-> <<>>, char |-> 0,
             oob_letter |-> FALSE, oob_word |-> FALSE]
    /\ script = [pos |-> 0, fin |-> FALSE, words |-> <<>>]
    /\ sent = 0
    /\ hist = Hist0

\* One iteration of while(1), lines 92-133, on the raw reading r and the
\* calibrated reading v.
Tick(r, v) ==
    LET volt1 == Reading(v)
        on == led_on(state, volt1)
        kind == EdgeKind(on)
        d0 == IF kind = "hold" THEN duration ELSE 0
        m0 == StoreTmp(layout, Mem0(r, volt1), "led_on", IF on THEN 1 ELSE 0)
        m1 == IF kind = "rise" THEN RisingEdge(duration, m0)
              ELSE IF kind = "fall" THEN FallingEdge(duration, m0)
              ELSE m0
    IN \E m \in {[m1 EXCEPT !.val.state = IF on THEN 1 ELSE 0,
                            !.val.duration = add_sample(d0)]} :
       /\ locals' = [threshold |-> m.val.threshold,
                     hysteresis |-> m.val.hysteresis,
                     dot |-> m.val.dot, do_calib |-> m.val.do_calib]
       /\ volt' = m.val.volt
       /\ state' = IF on THEN ON ELSE OFF
       /\ duration' = m.val.duration
       /\ letter_buf' = Bytes(layout, m, Frame(layout).letter_buf, m.val.lidx)
       /\ lidx' = m.val.lidx
       /\ word_buf' = Bytes(layout, m, Frame(layout).word_buf, m.val.widx)
       /\ widx' = m.val.widx
       /\ out' = m.out
       /\ ev' = [kind |-> kind, raw |-> v, volt |-> volt1, d |-> duration,
                 closed |-> m.closed,
                 code |-> m.code, char |-> m.char, oob_letter |-> m.oob_letter,
                 oob_word |-> m.oob_word]
       /\ script' = ScriptStep(script, volt1, m.out)
       /\ sent' = IF kind = "fall" THEN sent + 1
                  ELSE IF kind = "rise" /\ word_gap(duration) THEN 0
                  ELSE sent
       /\ hist' = History(hist, kind, m, duration)
       /\ UNCHANGED layout

----------------------------------------------------------------------------
(* Environments: which readings the sensor delivers.  Each bounds the run  *)
(* lengths of the signal and the number of symbols and letters it spells.  *)

Volts == {threshold - hysteresis, threshold - hysteresis + 1,
          threshold + hysteresis, threshold + hysteresis + 1}

\* The raw reading that is fed together with the calibrated reading v: the
\* full scale of the 12-bit converter for a lit sensor, 0 for a dark one.
RawOf(v) == IF v > threshold THEN MaxRaw ELSE 0

\* The signal stays On for at most maxOn ticks and Off for at most maxOff,
\* and spells at most maxSym symbols per letter, maxLet letters per word and
\* maxSent symbols per word (sent counts the pulses since the last word gap).
Env(v, maxSym, maxLet, maxSent, maxOn, maxOff) ==
    LET on == led_on(state, Reading(v))
    IN /\ (on /\ state = ON) => (0 <= duration /\ duration < maxOn * SAMPLE_MS)
       /\ (~on /\ state = OFF) => (0 <= duration /\ duration < maxOff * SAMPLE_MS)
       /\ (~on /\ state = ON) => (lidx < maxSym /\ sent < maxSent)
       /\ (on /\ state = OFF /\ lidx > 0 /\ letter_gap(duration))
             => widx < maxLet

MaxSent == 4
MaxOnTicks == 11
MaxOffTicks == 26

Next == \E v \in Volts :
            Env(v, MaxSent, MaxSent, MaxSent, MaxOnTicks, MaxOffTicks) /\ Tick(RawOf(v), v)

Spec == Init /\ [][Next]_vars

----------------------------------------------------------------------------
(* A letter of more than LETTER_CAP symbols: dots only, separated by short *)
(* gaps, at most MaxFillLetters letters per word, each of them one dot or  *)
(* at least LETTER_CAP dots.                                               *)

MaxSpill == 2
MaxDotTicks == 2
MaxCodeLen == 6
MaxFillLetters == 2

NextLetterFill == \E v \in Volts :
    /\ Env(v, INT_MAX, MaxFillLetters, LETTER_CAP + MaxSpill, MaxDotTicks,
           MaxOffTicks)
    /\ (led_on(state, Reading(v)) /\ state = OFF /\ letter_gap(duration))
          => (lidx <= 1 \/ lidx >= LETTER_CAP)
    /\ Tick(RawOf(v), v)

SpecLetterFill == Init /\ [][NextLetterFill]_vars

(* A word of more than WORD_CAP letters: every letter a single dot.        *)

NextWordFill == \E v \in Volts :
    /\ Env(v, 1, INT_MAX, WORD_CAP + MaxSpill, MaxDotTicks, MaxOffTicks)
    /\ Tick(RawOf(v), v)

SpecWordFill == Init /\ [][NextWordFill]_vars

(* A word of more than WORD_CAP letters: every letter MaxCodeLen dots, a   *)
(* code that is in no table entry.                                         *)

NextUnknownFill == \E v \in Volts :
    /\ Env(v, MaxCodeLen, INT_MAX, MaxCodeLen * (WORD_CAP + MaxSpill),
           MaxDotTicks, MaxOffTicks)
    /\ (led_on(state, Reading(v)) /\ state = OFF /\ letter_gap(duration))
          => lidx \in {0, MaxCodeLen}
    /\ Tick(RawOf(v), v)

SpecUnknownFill == Init /\ [][NextUnknownFill]_vars

(* One letter of up to MaxDeep symbols: pulses of one tick, separated by   *)
(* gaps of one or two ticks.                                               *)

MaxDeep == 93

NextDeepFill == \E v \in Volts :
    /\ Env(v, MaxDeep, 1, MaxDeep + MaxSpill, 1, 2)
    /\ Tick(RawOf(v), v)

SpecDeepFill == Init /\ [][NextDeepFill]_vars

----------------------------------------------------------------------------
(* A signal that keeps its level for weeks.  The receiver has been dark    *)
(* since startup, every iteration having executed only                     *)
(* duration += SAMPLE_MS (line 132), and is LongLead iterations away from  *)
(* the largest duration an int holds; the signal may stay dark for         *)
(* MaxWrapTicks iterations more after the sum has overflowed.              *)

LongLead == 3
MaxWrapTicks == 3

\* The largest multiple of SAMPLE_MS an int holds.
LastDuration == INT_MAX - (INT_MAX % SAMPLE_MS)

InitLongRun ==
    /\ locals \in {Locals0(calib) : calib \in BOOLEAN}
    /\ layout \in Layouts
    /\ volt = IF do_calib THEN threshold - hysteresis ELSE 0
    /\ state = OFF
    /\ duration = LastDuration - LongLead * SAMPLE_MS
    /\ letter_buf = <<>>
    /\ lidx = 0
    /\ word_buf = <<>>
    /\ widx = 0
    /\ out = <<>>
    /\ ev = [kind |-> "hold", raw |-> threshold - hysteresis, volt |-> volt,
             d |-> duration - SAMPLE_MS, closed |-> FALSE, code |-> <<>>,
             char |-> 0, oob_letter |-> FALSE, oob_word |-> FALSE]
    /\ script = OffScript
    /\ sent = 0
    /\ hist = [Hist0 EXCEPT !.ticks = 2, !.held = duration \div SAMPLE_MS]

\* The level is held on while duration is near the overflow or has wrapped.
LongHold(v) ==
    /\ EdgeKind(led_on(state, Reading(v))) = "hold"
    /\ \/ duration >= LastDuration - LongLead * SAMPLE_MS
       \/ duration < INT_MIN + MaxWrapTicks * SAMPLE_MS

NextLongRun == \E v \in Volts :
    /\ Env(v, 1, 1, 1, MaxDotTicks, MaxOffTicks) \/ LongHold(v)
    /\ Tick(RawOf(v), v)

SpecLongRun == InitLongRun /\ [][NextLongRun]_vars

----------------------------------------------------------------------------
(* Scenario A with a closing Off interval of any length: the receiver has  *)
(* just started, or it has taken On x5, Off x5, On x5 and has since been   *)
(* dark for weeks: it is LongLead iterations away from the largest         *)
(* duration an int holds, or from the iteration in which the wrapped       *)
(* duration comes back to 0 or more.                                       *)

\* The number of consecutive OFF iterations that bring duration to
\* LastDuration.
LastTick == LastDuration \div SAMPLE_MS

\* duration after n consecutive OFF iterations, n <= 2 * LastTick + 1: the
\* sum wraps in the iteration after LastTick.
OffDuration(n) ==
    IF n <= LastTick THEN n * SAMPLE_MS
    ELSE INT_MIN + ((n - LastTick) * SAMPLE_MS - (INT_MAX - LastDuration) - 1)

InitScenarioLong ==
    /\ locals = Locals0(TRUE)
    /\ layout \in Layouts
    /\ volt = threshold - hysteresis
    /\ state = OFF
    /\ \E n \in {LastTick - LongLead, 2 * LastTick + 1 - LongLead} :
          /\ duration = OffDuration(n)
          /\ script = [pos |-> 15 + n, fin |-> FALSE, words |-> <<>>]
          /\ hist = [Hist0 EXCEPT !.syms = Str(<<".", ".">>), !.fell = TRUE,
                                  !.ticks = 2, !.held = n]
    /\ letter_buf = Str(<<".", ".">>)
    /\ lidx = 2
    /\ word_buf = <<>>
    /\ widx = 0
    /\ out = <<>>
    /\ ev = [kind |-> "hold", raw |-> volt, volt |-> volt,
             d |-> int_add(duration, -SAMPLE_MS), closed |-> FALSE,
             code |-> <<>>, char |-> 0,
             oob_letter |-> FALSE, oob_word |-> FALSE]
    /\ sent = 2

\* The level is held on while the wrapped duration is about to come back to
\* 0.
WrappedHold(v) ==
    /\ EdgeKind(led_on(state, Reading(v))) = "hold"
    /\ duration < 0
    /\ duration >= -(LongLead + 1) * SAMPLE_MS

NextScenarioA == \E v \in Volts :
    /\ \/ Env(v, MaxSent, MaxSent, MaxSent, MaxOnTicks, MaxOffTicks)
       \/ LongHold(v)
       \/ WrappedHold(v)
    /\ Tick(RawOf(v), v)

SpecScenarioA == (Init \/ InitScenarioLong) /\ [][NextScenarioA]_vars

----------------------------------------------------------------------------
(* The lookup on every code of up to MaxCodeLen symbols: the receiver has  *)
(* taken the symbols of the code and has been dark for a letter gap.       *)

RECURSIVE CodesOfLen(_)
CodesOfLen(n) ==
    IF n = 0 THEN {<<>>}
    ELSE {Append(c, b) : c \in CodesOfLen(n - 1), b \in {DotChar, DashChar}}

Codes(n) == UNION {CodesOfLen(k) : k \in 1..n}

InitLookup ==
    /\ locals = Locals0(TRUE)
    /\ layout \in Layouts
    /\ volt = threshold - hysteresis
    /\ state = OFF
    /\ duration = 2 * dot
    /\ letter_buf \in Codes(MaxCodeLen)
    /\ lidx = Len(letter_buf)
    /\ word_buf = <<>>
    /\ widx = 0
    /\ out = <<>>
    /\ ev = [kind |-> "hold", raw |-> volt, volt |-> volt,
             d |-> 2 * dot - SAMPLE_MS,
             closed |-> FALSE,
             code |-> <<>>, char |-> 0,
             oob_letter |-> FALSE, oob_word |-> FALSE]
    /\ script = OffScript
    /\ sent = Len(letter_buf)
    /\ hist = [Hist0 EXCEPT !.syms = letter_buf, !.fell = TRUE, !.ticks = 2,
                            !.held = duration \div SAMPLE_MS]

NextLookup == \E v \in Volts :
    /\ Env(v, MaxCodeLen, 1, MaxCodeLen, MaxDotTicks, MaxOffTicks)
    /\ Tick(RawOf(v), v)

SpecLookup == InitLookup /\ [][NextLookup]_vars

----------------------------------------------------------------------------
(* Claims                                                                  *)

RisingStep == state = OFF /\ state' = ON
FallingStep == state = ON /\ state' = OFF

\* C1: the number of symbols held in letter_buf never exceeds LETTER_CAP and
\* no tick stores a symbol or a terminator at an index outside letter_buf.
C1_LetterBufferBounded == lidx <= LETTER_CAP /\ ~ev.oob_letter

\* C2: the number of characters held in word_buf never exceeds WORD_CAP and
\* no tick stores a character or a terminator at an index outside word_buf.
C2_WordBufferBounded == widx <= WORD_CAP /\ ~ev.oob_word

\* C3: a rising edge that ends a gap of at least 5 dots first closes the
\* pending letter into the word, then logs the word (if it is not empty) as
\* exactly one DecodedWord ending in the just-closed letter, and leaves both
\* buffers empty.
C3_WordGap ==
    [][(RisingStep /\ duration >= 5 * dot) =>
         LET w == IF lidx > 0
                  THEN Append(word_buf, morse_to_char(letter_buf))
                  ELSE word_buf
         IN /\ lidx' = 0 /\ letter_buf' = <<>>
            /\ widx' = 0 /\ word_buf' = <<>>
            /\ out' = IF w # <<>> THEN <<w>> ELSE <<>>]_vars

\* C4: a rising edge that ends a gap of at least 2 and less than 5 dots, with
\* symbols pending, appends exactly the looked-up character to the word,
\* empties the letter and logs nothing; with no symbol pending it changes
\* neither buffer.
C4_LetterGap ==
    [][(RisingStep /\ duration >= 2 * dot /\ duration < 5 * dot) =>
         /\ out' = <<>>
         /\ IF lidx > 0
            THEN /\ word_buf' = Append(word_buf, morse_to_char(letter_buf))
                 /\ widx' = widx + 1
                 /\ lidx' = 0 /\ letter_buf' = <<>>
            ELSE UNCHANGED <<letter_buf, lidx, word_buf, widx>>]_vars

\* C5: a falling edge appends exactly one symbol to the letter: a dot when
\* the On interval lasted less than 2 dots, a dash from exactly 2 dots on.
C5_DotOrDash ==
    [][FallingStep =>
         /\ letter_buf' = Append(letter_buf, IF duration < 2 * dot
                                             THEN Ascii(".") ELSE Ascii("-"))
         /\ lidx' = lidx + 1]_vars

\* C6: on every tick the state goes from Off to On exactly when the reading is
\* above threshold + hysteresis and from On to Off exactly when it is at or
\* below threshold - hysteresis, so a reading inside the band keeps the state.
C6_Hysteresis ==
    [][/\ state = OFF => (state' = ON <=> ev'.volt > threshold + hysteresis)
       /\ state = ON =>
             (state' = OFF <=> ev'.volt <= threshold - hysteresis)]_vars

\* C7 as stated: once On x5, Off x5, On x5 and 25 or more Off ticks have been
\* fed, a DecodedWord containing "I" has been logged.
C7_ScenarioA_Original ==
    (script.pos >= 15 + ScenarioA_Off /\ ~script.fin) =>
        \E i \in 1..Len(script.words) :
            \E j \in 1..Len(script.words[i]) : script.words[i][j] = Ascii("I")

\* C7 as amended: after those ticks the code ".." is pending as one letter
\* and nothing has been logged, however long the Off interval lasts.  The On
\* tick that ends it acts on the duration it finds: an Off interval of up
\* to LastTick ticks has left 5 dots or more; at 5 dots or more the tick
\* logs the one DecodedWord "I" and leaves both buffers empty; at 2 to less
\* than 5 dots it closes the letter into the word as "I" and logs nothing;
\* below 2 dots it logs nothing and leaves ".." pending.  Less than 5 dots
\* are only found after duration has overflowed.
C7_ScenarioA ==
    /\ (script.pos >= 15 + ScenarioA_Off /\ ~script.fin) =>
          /\ letter_buf = Str(<<".", ".">>) /\ lidx = 2
          /\ word_buf = <<>> /\ widx = 0
          /\ script.words = <<>>
    /\ script.fin =>
          /\ script.pos - 16 <= LastTick => ev.d >= 5 * dot
          /\ ev.d >= 5 * dot =>
                /\ script.words = <<Str(<<"I">>)>>
                /\ out = <<Str(<<"I">>)>>
                /\ letter_buf = <<>> /\ lidx = 0
                /\ word_buf = <<>> /\ widx = 0
          /\ (ev.d >= 2 * dot /\ ev.d < 5 * dot) =>
                /\ script.words = <<>> /\ out = <<>>
                /\ letter_buf = <<>> /\ lidx = 0
                /\ word_buf = Str(<<"I">>) /\ widx = 1
          /\ ev.d < 2 * dot =>
                /\ script.words = <<>> /\ out = <<>>
                /\ letter_buf = Str(<<".", ".">>) /\ lidx = 2
                /\ word_buf = <<>> /\ widx = 0

\* The closing On tick has arrived after duration had overflowed: it has
\* found a negative duration and has logged nothing.
C7_Witness ==
    script.fin /\ script.pos - 16 > LastTick /\ ev.d < 0 /\ out = <<>>

\* C8: the lookup returns the mapped character for each of the 36 codes of
\* the table, which map onto A-Z and 0-9, and '?' for every other code.
C8_LookupTotal ==
    /\ Len(morse_table) = 36
    /\ {morse_table[i].letter : i \in 1..Len(morse_table)} =
          {Ascii(Letters[i]) : i \in 1..Len(Letters)}
            \cup {Ascii(Digits[i]) : i \in 1..Len(Digits)}
    /\ ev.closed =>
          /\ \A i \in 1..Len(morse_table) :
                morse_table[i].morse = ev.code => ev.char = morse_table[i].letter
          /\ (\A i \in 1..Len(morse_table) : morse_table[i].morse # ev.code)
                => ev.char = Unknown

\* A code of more than 5 symbols has been looked up and has given '?'.
C8_Witness == ev.closed /\ Len(ev.code) > 5 /\ ev.char = Unknown

\* C9: a rising edge that ends a gap shorter than 2 dots changes neither
\* buffer and logs nothing, and the falling edge that follows keeps the
\* symbols already held in front of the one it appends.
C9_ShortGap ==
    [][/\ (RisingStep /\ duration < 2 * dot) =>
             (UNCHANGED <<letter_buf, lidx, word_buf, widx>> /\ out' = <<>>)
       /\ FallingStep =>
             (Len(letter_buf') >= Len(letter_buf)
              /\ SubSeq(letter_buf', 1, Len(letter_buf)) = letter_buf)]_vars

\* C10: duration is a non-negative multiple of the sampling period in every
\* reachable state.
C10_DurationMultiple == duration >= 0 /\ duration % SAMPLE_MS = 0

InTable(code) == \E i \in DOMAIN morse_table : morse_table[i].morse = code

\* C11: a rising edge that closes a letter whose code is in no table entry
\* appends '?' to the word (the word grows by exactly that one character, or
\* is logged with it after a word gap) and leaves the receiver in the state
\* every rising edge leaves it in: On, duration one sample, letter empty.
C11_UnknownCode ==
    [][(RisingStep /\ letter_gap(duration) /\ lidx > 0
          /\ ~InTable(hist.syms)) =>
         LET w == Append(word_buf, Unknown)
         IN /\ ev'.closed /\ ev'.char = Unknown
            /\ IF word_gap(duration)
               THEN out' = <<w>> /\ word_buf' = <<>> /\ widx' = 0
               ELSE out' = <<>> /\ word_buf' = w /\ widx' = widx + 1
            /\ letter_buf' = <<>> /\ lidx' = 0
            /\ state' = ON /\ duration' = SAMPLE_MS]_vars

\* C12: the loop never flushes on its own: a tick that is not an OFF -> ON
\* transition logs no word and leaves the word buffer as it was.
C12_NoFlush ==
    [][~RisingStep => (out' = <<>> /\ UNCHANGED <<word_buf, widx>>)]_vars

\* C13: nothing happens on startup: the first tick logs no word, closes no
\* letter and records no symbol, and until the first ON -> OFF transition no
\* letter is closed and no word is logged, however long the signal is Off.
C13_NoStartupEvent ==
    /\ hist.ticks = 1 =>
          (out = <<>> /\ ~ev.closed /\ lidx = 0 /\ letter_buf = <<>>)
    /\ ~hist.fell =>
          (out = <<>> /\ ~ev.closed /\ widx = 0 /\ word_buf = <<>>)

\* The first rising edge arrives after an initial Off of a word gap or more.
C13_Witness == ~hist.fell /\ ev.kind = "rise" /\ word_gap(ev.d)

\* C14: after the first tick, duration is SAMPLE_MS times the number of
\* consecutive most recent ticks spent in the current state: one SAMPLE_MS
\* right after an edge tick, one SAMPLE_MS more after every other tick.
C14_DurationCountsTicks ==
    hist.ticks > 0 =>
        /\ duration % SAMPLE_MS = 0
        /\ duration \div SAMPLE_MS = hist.held
        /\ ev.kind \in {"rise", "fall"} => duration = SAMPLE_MS

\* C15: a tick logs at most one word and closes at most one letter; it does
\* both only on a rising edge that ends a gap of at least 5 dots; a falling
\* edge records exactly one symbol, closes no letter and logs no word.
C15_OneEventPerTick ==
    [][/\ Len(out') <= 1
       /\ widx' <= widx + 1
       /\ (ev'.closed /\ out' # <<>>) => (RisingStep /\ duration >= 5 * dot)
       /\ FallingStep =>
             /\ lidx' = lidx + 1
             /\ Len(letter_buf') = Len(letter_buf) + 1
             /\ SubSeq(letter_buf', 1, Len(letter_buf)) = letter_buf
             /\ UNCHANGED <<word_buf, widx>>
             /\ ~ev'.closed /\ out' = <<>>]_vars

\* C16: as long as no letter of more than LETTER_CAP symbols and no word of
\* more than WORD_CAP letters has been spelled, the pending code is exactly
\* the symbols recorded since the last letter close, in order, and the text
\* of a logged word is exactly the lookups of the letters closed since the
\* last logged word, in order.
C16_WordIsLettersInOrder ==
    ~hist.over =>
        /\ letter_buf = hist.syms
        /\ out = IF hist.word = <<>> THEN <<>> ELSE <<hist.word>>

\* C17: the buffers change on edge ticks only: the letter buffer grows, by
\* exactly one symbol, only on an ON -> OFF tick; the letter buffer is
\* cleared and the word buffer is appended to or cleared only on an
\* OFF -> ON tick; a tick without an edge leaves both buffers as they were.
C17_BuffersChangeOnEdges ==
    [][/\ (lidx' > lidx \/ Len(letter_buf') > Len(letter_buf)) =>
             /\ FallingStep
             /\ lidx' = lidx + 1
             /\ letter_buf' = Append(letter_buf, letter_buf'[lidx'])
       /\ (lidx' < lidx \/ Len(letter_buf') < Len(letter_buf)) =>
             (RisingStep /\ lidx' = 0 /\ letter_buf' = <<>>)
       /\ (word_buf' # word_buf \/ widx' # widx) => RisingStep
       /\ state' = state => UNCHANGED <<letter_buf, lidx, word_buf, widx>>]_vars

\* C18: every logged word has at least one character, the lookup is only
\* called on a code of at least one symbol, and a rising edge that finds
\* both buffers empty logs nothing.
C18_NonEmpty ==
    [][/\ \A i \in DOMAIN out' : out'[i] # <<>>
       /\ ev'.closed => (lidx > 0 /\ ev'.code # <<>>)
       /\ (lidx = 0 /\ widx = 0) => (out' = <<>> /\ ~ev'.closed)]_vars

\* C19: without a calibration handle volt keeps its initial 0 whatever the
\* sensor reads, so the state never leaves OFF, no symbol is recorded, no
\* letter is closed and no word is logged.
C19_NoCalibration ==
    ~do_calib =>
        /\ volt = 0 /\ state = OFF /\ ~hist.fell
        /\ lidx = 0 /\ letter_buf = <<>> /\ widx = 0 /\ word_buf = <<>>
        /\ out = <<>> /\ ~ev.closed

\* Without calibration, a reading above the upper threshold arrived after
\* the signal had been taken as Off for a word gap.
C19_Witness ==
    /\ ~do_calib /\ ev.kind = "hold" /\ word_gap(ev.d)
    /\ ev.raw > threshold + hysteresis

====
